---- MODULE Spec2Model ----
(***************************************************************************)
(* View-state model of the dashboard front-end: the router (App), the      *)
(* shell (Layout), the two tweet-review pages (TargetUserTweets,           *)
(* RepurposedTweets), SignIn and Settings, the window event bus between    *)
(* shell and pages, and the HTTP requests in flight.                       *)
(*                                                                         *)
(* One step of the model is one task of the browser's event loop: a user   *)
(* event with the React commit and effects it causes, the continuation of  *)
(* an async handler after its awaited fetch settled, or a timer callback.  *)
(* window.dispatchEvent is synchronous, so a handler's dispatches and the  *)
(* listeners they run belong to the handler's step.                        *)
(***************************************************************************)
EXTENDS Integers, Sequences, FiniteSets, TLC

\* ------------------------------------------------------------- bounds
MaxInFlight == 2
MaxTweets == 2
MaxTimers == 1
\* Longest text drawn for an input of Settings, longest name and longest list
\* of names in the settings the server answers with.
MaxText == 4
MaxName == 3
MaxList == 2

\* ------------------------------------------------------------- values
\* JS null / undefined of an url or a name, and a field missing from a JSON body.
Null == "null"
Absent == "absent"
\* The null of editingTweet (tweet ids are the numbers from 1).
NoTweet == 0

\* The pending items a server list is made of; draft is draft_reply
\* (TargetUserTweets) or draft_post (RepurposedTweets), "" a missing or empty
\* draft (falsy).
DraftOf(id) == IF id % 2 = 1 THEN "first draft" ELSE ""
Items == {[tweet_id |-> id, draft |-> DraftOf(id)] : id \in 1..MaxTweets}
\* What the user can type into the edit textarea.
Typed == {"", "typed"}
\* detail fields of an error body.
Details == {Absent, "", "Invalid credentials"}

\* The items of S in the order of their ids.
RECURSIVE InOrder(_)
InOrder(S) ==
  IF S = {} THEN <<>>
  ELSE LET t == CHOOSE x \in S : \A y \in S : x.tweet_id <= y.tweet_id
       IN <<t>> \o InOrder(S \ {t})

\* pending_replies / pending_repurposed lists a server can answer with: tweet_id
\* identifies an item, so a list holds an id at most once.
ServerLists == {InOrder(S) : S \in SUBSET Items}

\* JS truthiness of a string value.
Truthy(s) == s # "" /\ s # Null /\ s # Absent

\* ------------------------------------------------------------- routes (App)
SignInRoute == "/"
DocumentationRoute == "/documentation"
DashboardIndex == "/dashboard"
TopTweetsRoute == "/dashboard/top-tweets"
TargetRoute == "/dashboard/target-user-tweets"
RepurposedRoute == "/dashboard/repurposed-tweets"
SettingsRoute == "/dashboard/settings"
AnalyticsRoute == "/dashboard/analytics"

\* Children of the <Route path="/dashboard" element={<Layout />}> element.
DashboardRoutes ==
  {TopTweetsRoute, TargetRoute, RepurposedRoute, SettingsRoute, AnalyticsRoute}
\* Paths at which the application rests (the index route redirects at once).
Routes == {SignInRoute, DocumentationRoute} \cup DashboardRoutes

\* <Route index element={<Navigate to="/dashboard/top-tweets" replace />} />
ResolveRoute(to) == IF to = DashboardIndex THEN TopTweetsRoute ELSE to

\* The page element the router renders at a path.
PageAt(p) ==
  CASE p = SignInRoute -> "SignIn"
    [] p = DocumentationRoute -> "Documentation"
    [] p = TopTweetsRoute -> "TopTweets"
    [] p = TargetRoute -> "TargetUserTweets"
    [] p = RepurposedRoute -> "RepurposedTweets"
    [] p = SettingsRoute -> "Settings"
    [] OTHER -> "Analytics"

ReviewPages == {"TargetUserTweets", "RepurposedTweets"}

\* ------------------------------------------------------------- state
VARIABLES
  path,       \* location.pathname
  layout,     \* Layout's state: actionButtons, loading, fetchComplete
  pages,      \* state of the two tweet-review pages, by component name
  signIn,     \* SignIn's state: loading, error
  settings,   \* Settings' state: activeModal, loading, initialLoading, error, success
  listeners,  \* window's listeners: how many handlers each event name has
  inflight,   \* HTTP requests issued and not yet settled, in order of issue
  timers,     \* pending setTimeout callbacks of the mounted Settings
  imageFetch, \* whether the mounted review page's GET /get_user_profile_image is in flight
  form,       \* Settings' two comma-separated inputs and the list last submitted
  env,        \* the build's environment: the two variables config/api.js reads
  last        \* the step just taken (for stating properties of single steps)

vars == <<path, layout, pages, signIn, settings, listeners, inflight, timers, imageFetch, form, env, last>>

EventNames ==
  {"viewTweets", "fetchTweets", "viewTargetTweets", "fetchTargetTweets",
   "viewRepurposed", "loadingStateChange", "fetchCompleteChange"}

LayoutMounted == path \in DashboardRoutes
Mounted(c) == PageAt(path) = c

\* ------------------------------------------------------------- Layout
ViewLabel == "View Tweets with Drafted Replies"
\* The source prefixes this label with a check-mark emoji.
FetchedLabel == "Fetched & Drafted"

\* A faulty getContextualButtons: its last branch is an else, so every other
\* route gets the repurposed button.
getContextualButtons_noFallthrough(pathname, fetchComplete) ==
  IF pathname = TopTweetsRoute THEN
    << [id |-> "view-tweets", label |-> ViewLabel, event |-> "viewTweets"],
       [id |-> "fetch-tweets",
        label |-> IF fetchComplete THEN FetchedLabel ELSE "Fetch Top Tweets",
        event |-> "fetchTweets"] >>
  ELSE IF pathname = TargetRoute THEN
    << [id |-> "view-target-tweets", label |-> ViewLabel, event |-> "viewTargetTweets"],
       [id |-> "fetch-target-tweets",
        label |-> IF fetchComplete THEN FetchedLabel ELSE "Fetch Target User Tweets",
        event |-> "fetchTargetTweets"] >>
  ELSE
    << [id |-> "view-repurposed", label |-> "View Drafted Tweet Ideas",
        event |-> "viewRepurposed"] >>

\* Each button's action closure dispatches the CustomEvent named by `event`.
getContextualButtons(pathname, fetchComplete) ==
  IF pathname = TopTweetsRoute THEN
    << [id |-> "view-tweets", label |-> ViewLabel, event |-> "viewTweets"],
       [id |-> "fetch-tweets",
        label |-> IF fetchComplete THEN FetchedLabel ELSE "Fetch Top Tweets",
        event |-> "fetchTweets"] >>
  ELSE IF pathname = TargetRoute THEN
    << [id |-> "view-target-tweets", label |-> ViewLabel, event |-> "viewTargetTweets"],
       [id |-> "fetch-target-tweets",
        label |-> IF fetchComplete THEN FetchedLabel ELSE "Fetch Target User Tweets",
        event |-> "fetchTargetTweets"] >>
  ELSE IF pathname = RepurposedRoute THEN
    << [id |-> "view-repurposed", label |-> "View Drafted Tweet Ideas",
        event |-> "viewRepurposed"] >>
  ELSE <<>>

\* useState initial values of Layout.
LayoutInit == [actionButtons |-> <<>>, loading |-> FALSE, fetchComplete |-> FALSE]

\* window.addEventListener / removeEventListener on the listener table.
addEventListener(ls, ev) == [ls EXCEPT ![ev] = @ + 1]
removeEventListener(ls, ev) == [ls EXCEPT ![ev] = IF @ > 0 THEN @ - 1 ELSE 0]

\* handleLoadingState: setLoading(e.detail.loading).
handleLoadingState(l, isLoading) == [l EXCEPT !.loading = isLoading]

\* handleFetchComplete: setFetchComplete(e.detail.complete); the change of
\* fetchComplete re-runs the effect setActionButtons(getContextualButtons()).
handleFetchComplete(l, pathname, isComplete) ==
  [l EXCEPT !.fetchComplete = isComplete,
            !.actionButtons = IF isComplete # l.fetchComplete
                                THEN getContextualButtons(pathname, isComplete)
                                ELSE @]

\* A page's dispatchLoadingState: delivered to every registered handler.
dispatchLoadingState(l, ls, isLoading) ==
  IF ls["loadingStateChange"] > 0 THEN handleLoadingState(l, isLoading) ELSE l

\* A page's dispatchFetchComplete.
dispatchFetchComplete(l, ls, pathname, isComplete) ==
  IF ls["fetchCompleteChange"] > 0 THEN handleFetchComplete(l, pathname, isComplete) ELSE l

\* A faulty resetFetchComplete: the flag survives the route change.
resetFetchComplete_keep(l, pathname) ==
  [l EXCEPT !.actionButtons = getContextualButtons(pathname, l.fetchComplete)]

\* Layout's effects for a new location.pathname: setActionButtons with the
\* fetchComplete of that render, setFetchComplete(false), and, when that
\* changed fetchComplete, the first effect again.
resetFetchComplete(l, pathname) ==
  [l EXCEPT !.actionButtons = getContextualButtons(pathname, FALSE),
            !.fetchComplete = FALSE]

\* ------------------------------------------------------------- requests
ListUrl(c) ==
  IF c = "TargetUserTweets" THEN "/fetch_pending_replies"
  ELSE "/fetch_pending_repurposed_tweets"
ActionUrl(c) ==
  IF c = "TargetUserTweets" THEN "/handle_reply_action"
  ELSE "/handle_repurpose_action_toptweets"
ScrapeUrl == "/scrape_user_tweets"
ProfileUrl == "/get_user_profile_image"
SignInUrl == "/sign-in"
SettingsUrl == "/get_user_settings"
\* The three field groups of Settings (the ids of its rows and modals).
Groups == {"twitter", "accounts", "keywords"}
UpdateUrl(g) ==
  CASE g = "twitter" -> "/update_twitter_credentials"
    [] g = "accounts" -> "/update_target_accounts"
    [] OTHER -> "/update_keywords"
ActionUrls == {ActionUrl(c) : c \in ReviewPages}
ListUrls == {ListUrl(c) : c \in ReviewPages}
UpdateUrls == {UpdateUrl(g) : g \in Groups}

\* A request in flight: the component instance that awaits it (live: that
\* instance is still mounted) and what was sent.
Request(c, method, url) == [comp |-> c, method |-> method, url |-> url, live |-> TRUE]

\* An item-action POST also keeps what the handler's closure holds for its
\* continuation: the tweets of the render in which the handler was created.
ActionRequest(c, payload, closureTweets) ==
  [comp |-> c, method |-> "POST", url |-> ActionUrl(c), live |-> TRUE,
   body |-> payload, tweets |-> closureTweets]

\* The instance that awaits r was unmounted: React ignores its setters from now
\* on, so what was sent and what its closure holds are never read again.
Orphan(r) == [comp |-> r.comp, method |-> r.method, url |-> r.url, live |-> FALSE]

RemoveAt(s, i) == [j \in 1..(Len(s) - 1) |-> IF j < i THEN s[j] ELSE s[j + 1]]

\* Requests of component c's mounted instance that are in flight.
LiveRequests(c) == {i \in DOMAIN inflight : inflight[i].comp = c /\ inflight[i].live}

\* ------------------------------------------------------------- component state
\* useState initial values of TargetUserTweets / RepurposedTweets (the latter
\* has no fetchComplete; its field stays FALSE).
PageInit ==
  [loading |-> FALSE, fetchComplete |-> FALSE, tweets |-> <<>>, showTweets |-> FALSE,
   error |-> "", editingTweet |-> NoTweet, editText |-> "", userProfileImage |-> Null]

\* useState initial values of SignIn.
SignInInit == [loading |-> FALSE, error |-> ""]

\* useState initial values of Settings.
SettingsInit ==
  [activeModal |-> Null, loading |-> FALSE, initialLoading |-> TRUE,
   error |-> "", success |-> ""]

NetworkError == "Network error. Please try again."

\* ------------------------------------------------------------- mount / unmount
\* The listener effect of a tweet-review page.
PageAddListeners(ls, c) ==
  IF c = "TargetUserTweets"
    THEN addEventListener(addEventListener(ls, "viewTargetTweets"), "fetchTargetTweets")
  ELSE IF c = "RepurposedTweets" THEN addEventListener(ls, "viewRepurposed")
  ELSE ls

\* A faulty cleanup: the page leaves its listeners registered.
PageRemoveListeners_leak(ls, c) == ls

\* Its cleanup on unmount.
PageRemoveListeners(ls, c) ==
  IF c = "TargetUserTweets"
    THEN removeEventListener(removeEventListener(ls, "viewTargetTweets"), "fetchTargetTweets")
  ELSE IF c = "RepurposedTweets" THEN removeEventListener(ls, "viewRepurposed")
  ELSE ls

\* Layout's listener effect and its cleanup.
LayoutAddListeners(ls) ==
  addEventListener(addEventListener(ls, "loadingStateChange"), "fetchCompleteChange")
\* A faulty cleanup of Layout: its two listeners stay registered.
LayoutRemoveListeners_leak(ls) == ls
LayoutRemoveListeners(ls) ==
  removeEventListener(removeEventListener(ls, "loadingStateChange"), "fetchCompleteChange")

\* The requests a page's mount effect issues and whose handler sets state that
\* other handlers read: handleViewTweets() on a review page, fetchUserSettings()
\* on Settings. (fetchUserProfileImage() of a review page is imageFetch.)
MountRequests(c) ==
  IF c \in ReviewPages THEN << Request(c, "GET", ListUrl(c)) >>
  ELSE IF c = "Settings" THEN << Request(c, "GET", SettingsUrl) >>
  ELSE <<>>

\* A review page right after its mount effects: updateLoading(true), setError('').
PageMounted == [PageInit EXCEPT !.loading = TRUE]

\* The router commits a new location. old is the page rendered so far (Null when
\* the application is just being loaded), wasLayout whether Layout was mounted.
\* React runs the cleanups of the unmounted components, then the effects of the
\* new page, then Layout's (a child's effects run before its parent's); through
\* the index route Layout is committed first and the page after the redirect.
Commit(to, old, wasLayout, l, ls, fl) ==
  LET q == ResolveRoute(to)
      new == PageAt(q)
      isLayout == q \in DashboardRoutes
      lsA == IF wasLayout /\ ~isLayout
               THEN LayoutRemoveListeners(PageRemoveListeners(ls, old))
               ELSE PageRemoveListeners(ls, old)
      lsB == IF isLayout /\ ~wasLayout /\ to = DashboardIndex
               THEN LayoutAddListeners(lsA) ELSE lsA
      l0 == IF wasLayout THEN l ELSE LayoutInit
      l1 == IF new \in ReviewPages THEN dispatchLoadingState(l0, lsB, TRUE) ELSE l0
      lsC == PageAddListeners(lsB, new)
      lsD == IF isLayout /\ ~wasLayout /\ to # DashboardIndex
               THEN LayoutAddListeners(lsC) ELSE lsC
  IN [path |-> q,
      layout |-> IF isLayout THEN resetFetchComplete(l1, q) ELSE LayoutInit,
      pages |-> [c \in ReviewPages |-> IF c = new THEN PageMounted ELSE PageInit],
      listeners |-> lsD,
      \* only the review pages dispatch window events after an await: a request
      \* of an unmounted SignIn or Settings has no effect left and is dropped
      inflight |-> SelectSeq([i \in DOMAIN fl |-> IF fl[i].comp = old /\ fl[i].live
                                                     THEN Orphan(fl[i]) ELSE fl[i]],
                             LAMBDA r : r.live \/ r.comp \in ReviewPages)
                   \o MountRequests(new)]

NoListeners == [e \in EventNames |-> 0]

\* ------------------------------------------------------------- base URL
\* The host every literal URL of the sources names.
DefaultBase == "https://twitter-growth-agent.onrender.com"
\* Values VITE_REACT_APP_API_BASE_URL and REACT_APP_API_BASE_URL can be given
\* (Absent: not set).
EnvValues == {Absent, "http://localhost:8000", "https://api.example.com"}
Envs == [vite : EnvValues, react : EnvValues]
NoEnv == [vite |-> Absent, react |-> Absent]

\* config/api.js: the first truthy of the two variables, else the default.
API_BASE_URL(e) ==
  IF Truthy(e.vite) THEN e.vite
  ELSE IF Truthy(e.react) THEN e.react
  ELSE DefaultBase

\* What precedes the path in the URL a component's fetch calls are given:
\* SignIn uses API_BASE_URL, Settings the template
\* `${process.env.REACT_APP_API_BASE_URL}` (an unset variable prints as
\* "undefined"), the review pages a literal host.
BaseUrl(c, e) ==
  IF c = "SignIn" THEN API_BASE_URL(e)
  ELSE IF c = "Settings" THEN (IF e.react = Absent THEN "undefined" ELSE e.react)
  ELSE DefaultBase

\* ------------------------------------------------------------- Settings' inputs
\* A JS string is the sequence of its characters.
Chars == {"a", " ", ","}
Texts == UNION {[1..n -> Chars] : n \in 0..MaxText}
\* Account names and keywords as the server stores them: non-empty, trimmed,
\* without a comma.
Names ==
  {t \in UNION {[1..n -> Chars \ {","}] : n \in 1..MaxName} :
     t[1] # " " /\ t[Len(t)] # " "}
NameLists == UNION {[1..n -> Names] : n \in 0..MaxList}

\* A field of the body of GET /get_user_settings: has is whether it is there
\* (an array, empty or not, is truthy).
NoField == [has |-> FALSE, list |-> <<>>]
DataFields == {NoField} \cup {[has |-> TRUE, list |-> L] : L \in NameLists}
NoData == [target_accounts |-> NoField, search_keywords |-> NoField]
SettingsData == [target_accounts : DataFields, search_keywords : DataFields]

\* String.prototype.split(',')
RECURSIVE split(_)
split(s) ==
  IF \A k \in DOMAIN s : s[k] # "," THEN <<s>>
  ELSE LET k == CHOOSE k \in DOMAIN s : s[k] = "," /\ \A j \in 1..(k - 1) : s[j] # ","
       IN <<SubSeq(s, 1, k - 1)>> \o split(SubSeq(s, k + 1, Len(s)))

\* String.prototype.trim()
RECURSIVE trimStart(_)
trimStart(s) == IF s # <<>> /\ Head(s) = " " THEN trimStart(Tail(s)) ELSE s
RECURSIVE trimEnd(_)
trimEnd(s) ==
  IF s # <<>> /\ s[Len(s)] = " " THEN trimEnd(SubSeq(s, 1, Len(s) - 1)) ELSE s
trim(s) == trimEnd(trimStart(s))

\* Array.prototype.join(', ')
RECURSIVE join(_)
join(list) ==
  IF list = <<>> THEN <<>>
  ELSE IF Len(list) = 1 THEN list[1]
  ELSE list[1] \o <<",", " ">> \o join(Tail(list))

\* targetAccounts.split(',').map(acc => acc.trim()).filter(acc => acc)
accountsArray(targetAccounts) ==
  LET pieces == split(targetAccounts)
  IN SelectSeq([i \in DOMAIN pieces |-> trim(pieces[i])], LAMBDA acc : acc # <<>>)

\* A faulty keywordsArray: the pieces are not trimmed.
keywordsArray_noTrim(keywords) ==
  SelectSeq(split(keywords), LAMBDA kw : kw # <<>>)

\* keywords.split(',').map(kw => kw.trim()).filter(kw => kw)
keywordsArray(keywords) ==
  LET pieces == split(keywords)
  IN SelectSeq([i \in DOMAIN pieces |-> trim(pieces[i])], LAMBDA kw : kw # <<>>)

\* data.target_accounts ? data.target_accounts.join(', ') : ''
display(field) == IF field.has THEN join(field.list) ELSE <<>>

\* The number in a row's description, `${text.split(',').length} ... configured`;
\* an empty text is falsy and the row shows its placeholder instead (no number).
configuredCount(text) == Len(split(text))
showsCount(text) == text # <<>>

\* The two inputs, by the name of their state.
Fields == {"targetAccounts", "keywords"}
DataOf(data, f) ==
  IF f = "targetAccounts" THEN data.target_accounts ELSE data.search_keywords

\* Settings' inputs as constructed (useState('')), before the settings data
\* the server will answer with and the text typed the user will enter.
\* fromServer: the inputs that still hold what fetchUserSettings put there;
\* body: the list of the body last submitted and the input it came from.
FormState(data, typed) ==
  [data |-> data, typed |-> typed,
   targetAccounts |-> <<>>, keywords |-> <<>>,
   fetched |-> FALSE, fromServer |-> {},
   body |-> [field |-> Null, list |-> <<>>]]

\* ------------------------------------------------------------- load and navigation
\* The components' state when the application is loaded at route p.
Load(p) ==
  LET s == Commit(p, Null, FALSE, LayoutInit, NoListeners, <<>>)
  IN /\ path = s.path
     /\ layout = s.layout
     /\ pages = s.pages
     /\ signIn = SignInInit
     /\ settings = SettingsInit
     /\ listeners = s.listeners
     /\ inflight = s.inflight
     /\ timers = 0
     /\ imageFetch = (PageAt(s.path) \in ReviewPages)
     /\ last = [op |-> "load"]

\* The application is loaded at any of its routes. The texts of Settings' two
\* inputs are followed under SpecForm only; here they stay as constructed.
Init ==
  /\ \E p \in Routes \cup {DashboardIndex} : Load(p)
  /\ form = FormState(NoData, <<>>)
  /\ env = NoEnv

\* navigate(to) / a NavLink: every component but Layout is unmounted or fresh
\* afterwards. fl is the list of requests in flight when the router commits.
NavigateTo(to, fl) ==
  LET s == Commit(to, PageAt(path), LayoutMounted, layout, listeners, fl)
  IN /\ Len(s.inflight) <= MaxInFlight
     /\ path' = s.path
     /\ layout' = s.layout
     /\ pages' = s.pages
     /\ signIn' = SignInInit
     /\ settings' = SettingsInit
     /\ listeners' = s.listeners
     /\ inflight' = s.inflight
     \* a timer of the unmounted Settings only calls setters React ignores
     /\ timers' = 0
     \* and so does the profile-image fetch of an unmounted page
     /\ imageFetch' = (PageAt(s.path) \in ReviewPages)
     /\ form' = form
     /\ env' = env

\* The links the rendered components offer: Layout's header links and
\* Navigation's NavLinks, the View Guide button of Settings' twitter modal, and
\* the buttons of Documentation.
Links ==
  IF LayoutMounted THEN
    ({DashboardIndex, AnalyticsRoute, SettingsRoute, RepurposedRoute,
      TopTweetsRoute, TargetRoute} \ {path})
    \cup (IF Mounted("Settings") /\ ~settings.initialLoading
             /\ settings.activeModal = "twitter"
            THEN {DocumentationRoute} ELSE {})
  ELSE IF Mounted("Documentation") THEN {SettingsRoute}
  ELSE {}

Navigate(to) ==
  /\ to \in Links
  /\ NavigateTo(to, inflight)
  /\ last' = [op |-> "navigate", from |-> path, wasComplete |-> layout.fetchComplete]

\* ------------------------------------------------------------- review pages
\* n copies of x, in a sequence.
Copies(x, n) == [k \in 1..n |-> x]

\* The list is rendered under {showTweets && !loading}; TargetUserTweets renders
\* an item's controls only under {tweet.draft_reply && ...}.
Rendered(c, k) ==
  /\ Mounted(c)
  /\ pages[c].showTweets /\ ~pages[c].loading
  /\ k \in DOMAIN pages[c].tweets
  /\ (c = "TargetUserTweets" => Truthy(pages[c].tweets[k].draft))

\* The item shows its textarea with Save and Cancel.
InEditMode(c, k) == pages[c].editingTweet = pages[c].tweets[k].tweet_id

\* A faulty Payload: edited_text is sent with every action.
Payload_always(tweetId, action, editedText) ==
  [tweet_id |-> tweetId, action |-> action, edited_text |-> editedText]

\* payload = {tweet_id, action}; if (action === 'edit' && editedText) payload.edited_text = editedText
Payload(tweetId, action, editedText) ==
  IF action = "edit" /\ Truthy(editedText)
    THEN [tweet_id |-> tweetId, action |-> action, edited_text |-> editedText]
    ELSE [tweet_id |-> tweetId, action |-> action]

\* tweets.filter(tweet => tweet.tweet_id !== tweetId)
FilterOut(tweets, tweetId) == SelectSeq(tweets, LAMBDA t : t.tweet_id # tweetId)

\* handleViewTweetsAction / handleViewRepurposedAction up to its await, run n
\* times by an instance of c that is mounted or not (alive).
ViewEntry(c, alive, n) ==
  /\ Len(inflight) + n <= MaxInFlight
  /\ pages' = IF alive /\ n > 0
                THEN [pages EXCEPT ![c] = [@ EXCEPT !.loading = TRUE, !.error = ""]]
                ELSE pages
  /\ layout' = IF n > 0 THEN dispatchLoadingState(layout, listeners, TRUE) ELSE layout
  /\ inflight' = inflight \o Copies([Request(c, "GET", ListUrl(c)) EXCEPT !.live = alive], n)

\* handleFetchTweetsAction up to its await.
FetchEntry(c, alive, n) ==
  /\ Len(inflight) + n <= MaxInFlight
  /\ pages' = IF alive /\ n > 0
                THEN [pages EXCEPT ![c] = [@ EXCEPT !.loading = TRUE, !.error = "",
                                                    !.fetchComplete = FALSE]]
                ELSE pages
  /\ layout' = IF n > 0
                 THEN dispatchFetchComplete(dispatchLoadingState(layout, listeners, TRUE),
                                            listeners, path, FALSE)
                 ELSE layout
  /\ inflight' = inflight \o Copies([Request(c, "POST", ScrapeUrl) EXCEPT !.live = alive], n)

\* The page whose listener effect registers a handler for the intent event.
ListenerOf(ev) ==
  IF ev \in {"viewTargetTweets", "fetchTargetTweets"} THEN "TargetUserTweets"
  ELSE IF ev = "viewRepurposed" THEN "RepurposedTweets"
  ELSE Null

\* A faulty button: with no handler registered for its event, the shell marks
\* itself loading.
ClickButton_shellLoading(i) ==
  /\ LayoutMounted
  /\ i \in DOMAIN layout.actionButtons
  /\ ~layout.loading
  /\ LET b == layout.actionButtons[i]
         c == ListenerOf(b.event)
         n == listeners[b.event]
     IN /\ IF b.event \in {"viewTargetTweets", "viewRepurposed"}
             THEN ViewEntry(c, Mounted(c), n)
           ELSE IF b.event = "fetchTargetTweets"
             THEN FetchEntry(c, Mounted(c), n)
           ELSE /\ layout' = [layout EXCEPT !.loading = TRUE]
                /\ UNCHANGED <<pages, inflight>>
        /\ last' = [op |-> "click", id |-> b.id, events |-> <<b.event>>, handlers |-> n]
  /\ UNCHANGED <<env, form, path, signIn, settings, listeners, timers, imageFetch>>

\* A click on the i-th contextual button of the shell (disabled={loading}):
\* button.action dispatches its event, and window runs every handler
\* registered for it.
ClickButton(i) ==
  /\ LayoutMounted
  /\ i \in DOMAIN layout.actionButtons
  /\ ~layout.loading
  /\ LET b == layout.actionButtons[i]
         c == ListenerOf(b.event)
         n == listeners[b.event]
     IN /\ IF b.event \in {"viewTargetTweets", "viewRepurposed"}
             THEN ViewEntry(c, Mounted(c), n)
           ELSE IF b.event = "fetchTargetTweets"
             THEN FetchEntry(c, Mounted(c), n)
           ELSE UNCHANGED <<pages, layout, inflight>>
        /\ last' = [op |-> "click", id |-> b.id, events |-> <<b.event>>, handlers |-> n]
  /\ UNCHANGED <<env, form, path, signIn, settings, listeners, timers, imageFetch>>

\* handleReplyAction / handleRepurposeAction up to its await.
handleReplyAction(c, tweetId, action, editedText) ==
  /\ Len(inflight) < MaxInFlight
  /\ pages' = [pages EXCEPT ![c] = [@ EXCEPT !.loading = TRUE, !.error = ""]]
  /\ layout' = dispatchLoadingState(layout, listeners, TRUE)
  /\ inflight' = Append(inflight,
                        ActionRequest(c, Payload(tweetId, action, editedText), pages[c].tweets))
  /\ UNCHANGED <<env, form, path, signIn, settings, listeners, timers, imageFetch>>

\* The Reply / Post button: handleReplyAction(tweet.tweet_id, 'confirm').
Confirm(c, k) ==
  /\ Rendered(c, k) /\ ~InEditMode(c, k)
  /\ handleReplyAction(c, pages[c].tweets[k].tweet_id, "confirm", Null)
  /\ last' = [op |-> "confirm"]

\* The Delete button: handleReplyAction(tweet.tweet_id, 'cancel').
Delete(c, k) ==
  /\ Rendered(c, k) /\ ~InEditMode(c, k)
  /\ handleReplyAction(c, pages[c].tweets[k].tweet_id, "cancel", Null)
  /\ last' = [op |-> "cancel"]

\* A faulty startEdit: the buffer of the previous edit session is kept.
startEdit_keepText(pg, tweet) == [pg EXCEPT !.editingTweet = tweet.tweet_id]

\* startEdit: setEditingTweet(tweet.tweet_id); setEditText(tweet.draft_reply)
startEdit(pg, tweet) == [pg EXCEPT !.editingTweet = tweet.tweet_id, !.editText = tweet.draft]

\* The Edit button.
StartEdit(c, k) ==
  /\ Rendered(c, k) /\ ~InEditMode(c, k)
  /\ pages' = [pages EXCEPT ![c] = startEdit(@, pages[c].tweets[k])]
  /\ last' = [op |-> "startEdit", wasEditing |-> pages[c].editingTweet]
  /\ UNCHANGED <<env, form, path, layout, signIn, settings, listeners, inflight, timers, imageFetch>>

\* The textarea's onChange: setEditText(e.target.value).
TypeEdit(c, k, text) ==
  /\ Rendered(c, k) /\ InEditMode(c, k)
  /\ pages[c].editText # text
  /\ pages' = [pages EXCEPT ![c] = [@ EXCEPT !.editText = text]]
  /\ last' = [op |-> "type"]
  /\ UNCHANGED <<env, form, path, layout, signIn, settings, listeners, inflight, timers, imageFetch>>

\* A faulty cancelEdit: the buffer is kept.
cancelEdit_keepText(pg) == [pg EXCEPT !.editingTweet = NoTweet]

\* cancelEdit: setEditingTweet(null); setEditText('')
cancelEdit(pg) == [pg EXCEPT !.editingTweet = NoTweet, !.editText = ""]

\* The Cancel button of an item in edit mode.
CancelEdit(c, k) ==
  /\ Rendered(c, k) /\ InEditMode(c, k)
  /\ pages' = [pages EXCEPT ![c] = cancelEdit(@)]
  /\ last' = [op |-> "cancelEdit"]
  /\ UNCHANGED <<env, form, path, layout, signIn, settings, listeners, inflight, timers, imageFetch>>

\* The Save button: submitEdit(tweet.tweet_id) = handleReplyAction(tweetId, 'edit', editText)
SubmitEdit(c, k) ==
  /\ Rendered(c, k) /\ InEditMode(c, k)
  /\ handleReplyAction(c, pages[c].tweets[k].tweet_id, "edit", pages[c].editText)
  /\ last' = [op |-> "submitEdit"]

\* ------------------------------------------------------------- responses
\* How a fetch settles: the promise rejects (status "fail"), or resolves with
\* response.ok true ("ok") or false ("nonok"). json: response.json() resolves
\* with an object (otherwise it, or the read of a field, throws inside the try).
Failures == {[status |-> "fail", json |-> FALSE, detail |-> Absent]}
NonOk ==
  {[status |-> "nonok", json |-> TRUE, detail |-> d] : d \in Details}
  \cup {[status |-> "nonok", json |-> FALSE, detail |-> Absent]}
OkBodies == {[status |-> "ok", json |-> j, detail |-> Absent] : j \in BOOLEAN}

\* Answers to a POST whose ok body is only logged.
PostResponses == OkBodies \cup NonOk \cup Failures

\* Answers to a pending-list GET: hasList is whether the body has the
\* pending_replies / pending_repurposed field.
ListResponses ==
  {[status |-> "ok", json |-> TRUE, detail |-> Absent, hasList |-> TRUE, list |-> L] :
      L \in ServerLists}
  \cup {[status |-> "ok", json |-> j, detail |-> Absent, hasList |-> FALSE, list |-> <<>>] :
          j \in BOOLEAN}
  \cup {[status |-> "nonok", json |-> TRUE, detail |-> "Invalid credentials",
         hasList |-> FALSE, list |-> <<>>]}
  \cup {[status |-> "fail", json |-> FALSE, detail |-> Absent,
         hasList |-> FALSE, list |-> <<>>]}

\* Answers to GET /get_user_profile_image: the profile_image_url of an ok
\* body, or Absent when the request fails or is not ok.
ProfileResponses == {Absent, Null, "img"}

\* The step record of a settled request: which one, and whether the instance
\* that awaited it is still mounted.
Settled(r) == [op |-> "response", url |-> r.url, live |-> r.live]

\* errorData.detail || fallback
DetailOr(resp, fallback) == IF Truthy(resp.detail) THEN resp.detail ELSE fallback

ListFallback(c) ==
  IF c = "TargetUserTweets" THEN "Failed to fetch tweets with replies"
  ELSE "Failed to fetch repurposed tweets"
ScrapeFallback == "Failed to fetch target user tweets"
\* `Failed to ${action} reply` / `Failed to ${action} tweet`
ActionFallback(c, action) ==
  "Failed to " \o action \o (IF c = "TargetUserTweets" THEN " reply" ELSE " tweet")

\* The error a POST handler's else branch or catch block sets.
PostError(resp, fallback) ==
  IF resp.status = "nonok" /\ resp.json THEN DetailOr(resp, fallback) ELSE NetworkError

\* A faulty handler without finally: loading is reset on success only.
finallyLoading_skipOnError(pg, resp) ==
  IF resp.status = "ok" /\ resp.json THEN [pg EXCEPT !.loading = FALSE] ELSE pg

\* finally { updateLoading(false) }: the page's part, setLoading(false).
finallyLoading(pg, resp) == [pg EXCEPT !.loading = FALSE]

\* A faulty list handler: the fetched items are appended to the list.
viewSettled_merge(pg, c, resp) ==
  IF resp.status = "ok" /\ resp.json
    THEN [pg EXCEPT !.tweets = pg.tweets \o (IF resp.hasList THEN resp.list ELSE <<>>),
                    !.showTweets = TRUE]
  ELSE IF resp.status = "nonok" THEN [pg EXCEPT !.error = ListFallback(c)]
  ELSE [pg EXCEPT !.error = NetworkError]

\* handleViewTweetsAction / handleViewRepurposedAction after its await, before
\* finally: setTweets(data.pending_replies || []); setShowTweets(true), or setError.
viewSettled(pg, c, resp) ==
  IF resp.status = "ok" /\ resp.json
    THEN [pg EXCEPT !.tweets = IF resp.hasList THEN resp.list ELSE <<>>,
                    !.showTweets = TRUE]
  ELSE IF resp.status = "nonok" THEN [pg EXCEPT !.error = ListFallback(c)]
  ELSE [pg EXCEPT !.error = NetworkError]

\* The pending-list GET in flight at position i settles.
ViewResponse(i, resp) ==
  /\ i \in DOMAIN inflight
  /\ inflight[i].url \in ListUrls
  /\ resp \in ListResponses
  /\ LET r == inflight[i]
         c == r.comp
     IN /\ pages' = IF r.live
                      THEN [pages EXCEPT ![c] = finallyLoading(viewSettled(@, c, resp), resp)]
                      ELSE pages
        /\ layout' = dispatchLoadingState(layout, listeners, FALSE)
        /\ inflight' = RemoveAt(inflight, i)
        /\ last' = Settled(r)
  /\ UNCHANGED <<env, form, path, signIn, settings, listeners, timers, imageFetch>>

\* handleFetchTweetsAction after its await: on ok updateFetchComplete(true) and
\* handleViewTweetsAction() (which runs up to its own await), else setError;
\* finally updateLoading(false).
FetchResponse(i, resp) ==
  /\ i \in DOMAIN inflight
  /\ inflight[i].url = ScrapeUrl
  /\ resp \in PostResponses
  /\ LET r == inflight[i]
         c == r.comp
         good == resp.status = "ok" /\ resp.json
         l1 == IF good
                 THEN dispatchLoadingState(
                        dispatchFetchComplete(layout, listeners, path, TRUE), listeners, TRUE)
                 ELSE layout
     IN /\ pages' = IF ~r.live THEN pages
                    ELSE IF good
                      THEN [pages EXCEPT ![c] =
                              finallyLoading([@ EXCEPT !.fetchComplete = TRUE,
                                                       !.loading = TRUE, !.error = ""], resp)]
                    ELSE [pages EXCEPT ![c] =
                            finallyLoading([@ EXCEPT !.error = PostError(resp, ScrapeFallback)],
                                           resp)]
        /\ layout' = dispatchLoadingState(l1, listeners, FALSE)
        /\ inflight' = IF good
                         THEN Append(RemoveAt(inflight, i),
                                     [Request(c, "GET", ListUrl(c)) EXCEPT !.live = r.live])
                         ELSE RemoveAt(inflight, i)
        /\ last' = Settled(r)
  /\ UNCHANGED <<env, form, path, signIn, settings, listeners, timers, imageFetch>>

\* A faulty item-action handler: the edit session of another item is kept.
actionSettled_keepOtherEdit(pg, r, resp) ==
  IF resp.status = "ok" /\ resp.json
    THEN [pg EXCEPT !.tweets = FilterOut(r.tweets, r.body.tweet_id),
                    !.editingTweet = IF @ = r.body.tweet_id THEN NoTweet ELSE @,
                    !.editText = IF pg.editingTweet = r.body.tweet_id THEN "" ELSE @]
    ELSE [pg EXCEPT !.error = PostError(resp, ActionFallback(r.comp, r.body.action))]

\* handleReplyAction / handleRepurposeAction after its await, before finally: on
\* ok setTweets(tweets.filter(...)) with the tweets of the handler's closure,
\* setEditingTweet(null), setEditText(''); else setError.
actionSettled(pg, r, resp) ==
  IF resp.status = "ok" /\ resp.json
    THEN [pg EXCEPT !.tweets = FilterOut(r.tweets, r.body.tweet_id),
                    !.editingTweet = NoTweet, !.editText = ""]
    ELSE [pg EXCEPT !.error = PostError(resp, ActionFallback(r.comp, r.body.action))]

\* The item-action POST in flight at position i settles.
ActionResponse(i, resp) ==
  /\ i \in DOMAIN inflight
  /\ inflight[i].url \in ActionUrls
  /\ resp \in PostResponses
  /\ LET r == inflight[i]
         c == r.comp
     IN /\ pages' = IF r.live
                      THEN [pages EXCEPT ![c] = finallyLoading(actionSettled(@, r, resp), resp)]
                      ELSE pages
        /\ layout' = dispatchLoadingState(layout, listeners, FALSE)
        /\ inflight' = RemoveAt(inflight, i)
        \* wasEditing: the item in edit mode when the answer arrived
        /\ last' = [op |-> "response", url |-> r.url, live |-> r.live,
                    wasEditing |-> IF r.live THEN pages[c].editingTweet ELSE NoTweet]
  /\ UNCHANGED <<env, form, path, signIn, settings, listeners, timers, imageFetch>>

\* fetchUserProfileImage after its await: setUserProfileImage on ok, else
\* nothing (the catch block only logs).
ProfileResponse(url) ==
  /\ imageFetch
  /\ imageFetch' = FALSE
  /\ pages' = IF url # Absent
                THEN [pages EXCEPT ![PageAt(path)] = [@ EXCEPT !.userProfileImage = url]]
                ELSE pages
  /\ last' = [op |-> "profileResponse"]
  /\ UNCHANGED <<env, form, path, layout, signIn, settings, listeners, inflight, timers>>

\* ------------------------------------------------------------- SignIn
\* handleSubmit up to its await (the submit button is disabled={loading}).
SignInSubmit ==
  /\ Mounted("SignIn")
  /\ ~signIn.loading
  /\ Len(inflight) < MaxInFlight
  /\ signIn' = [loading |-> TRUE, error |-> ""]
  /\ inflight' = Append(inflight, Request("SignIn", "POST", SignInUrl))
  /\ last' = [op |-> "signInSubmit"]
  /\ UNCHANGED <<env, form, path, layout, pages, settings, listeners, timers, imageFetch>>

\* A faulty handleSubmit: the detail of the body is ignored.
signInSettled_fallbackOnly(si, resp) ==
  [si EXCEPT !.error = IF resp.status = "nonok" /\ resp.json
                         THEN "Authentication failed" ELSE NetworkError]

\* handleSubmit's else branch and catch block:
\* setError(errorData.detail || 'Authentication failed') or the network error.
signInSettled(si, resp) == [si EXCEPT !.error = PostError(resp, "Authentication failed")]

\* if (response.ok) { const data = await response.json(); ...; navigate('/dashboard') }
signInNavigates(resp) == resp.status = "ok" /\ resp.json

\* handleSubmit after its await.
SignInResponse(i, resp) ==
  /\ i \in DOMAIN inflight
  /\ inflight[i].url = SignInUrl
  /\ resp \in PostResponses
  /\ LET r == inflight[i]
     IN /\ IF signInNavigates(resp)
             THEN NavigateTo(DashboardIndex, RemoveAt(inflight, i))
             ELSE /\ signIn' = IF r.live
                                 THEN [signInSettled(signIn, resp) EXCEPT !.loading = FALSE]
                                 ELSE signIn
                  /\ inflight' = RemoveAt(inflight, i)
                  /\ UNCHANGED <<env, form, path, layout, pages, settings, listeners, timers, imageFetch>>
        /\ last' = Settled(r)

\* ------------------------------------------------------------- Settings
\* fetchUserSettings after its await: finally setInitialLoading(false).
SettingsResponse(i, resp) ==
  /\ i \in DOMAIN inflight
  /\ inflight[i].url = SettingsUrl
  /\ resp \in OkBodies \cup Failures
  /\ LET r == inflight[i]
     IN /\ settings' = IF r.live THEN [settings EXCEPT !.initialLoading = FALSE] ELSE settings
        /\ inflight' = RemoveAt(inflight, i)
        /\ last' = Settled(r)
  /\ UNCHANGED <<env, form, path, layout, pages, signIn, listeners, timers, imageFetch>>

\* The rows and the modal are rendered once initialLoading is false.
SettingsRendered == Mounted("Settings") /\ ~settings.initialLoading

\* A settings row: onClick={() => setActiveModal(action.id)}. The open modal's
\* overlay covers the rows.
OpenModal(g) ==
  /\ SettingsRendered
  /\ settings.activeModal = Null
  /\ settings' = [settings EXCEPT !.activeModal = g]
  /\ last' = [op |-> "openModal"]
  /\ UNCHANGED <<env, form, path, layout, pages, signIn, listeners, inflight, timers, imageFetch>>

\* closeModal: setActiveModal(null); setError(''); setSuccess('')
closeModal(st) == [st EXCEPT !.activeModal = Null, !.error = "", !.success = ""]

\* The modal's close button.
CloseModal ==
  /\ SettingsRendered
  /\ settings.activeModal # Null
  /\ settings' = closeModal(settings)
  /\ last' = [op |-> "closeModal"]
  /\ UNCHANGED <<env, form, path, layout, pages, signIn, listeners, inflight, timers, imageFetch>>

\* handleTwitterSubmit / handleTargetAccountsSubmit / handleKeywordsSubmit up to
\* its await: the form of the open modal, its submit button disabled={loading}.
SettingsSubmit(g) ==
  /\ SettingsRendered
  /\ settings.activeModal = g
  /\ ~settings.loading
  /\ Len(inflight) < MaxInFlight
  /\ settings' = [settings EXCEPT !.loading = TRUE, !.error = "", !.success = ""]
  /\ inflight' = Append(inflight, Request("Settings", "POST", UpdateUrl(g)))
  /\ last' = [op |-> "settingsSubmit"]
  /\ UNCHANGED <<env, form, path, layout, pages, signIn, listeners, timers, imageFetch>>

\* persona_status values of an ok body of /update_twitter_credentials.
PersonaStatuses == {Absent, "success", "no_tweets_found", "generation_failed"}

UpdateResponses(url) ==
  IF url = UpdateUrl("twitter")
    THEN {[status |-> "ok", json |-> TRUE, detail |-> Absent, persona_status |-> ps] :
             ps \in PersonaStatuses}
         \cup {[status |-> x.status, json |-> x.json, detail |-> x.detail,
                persona_status |-> Absent] :
                  x \in {y \in PostResponses : ~(y.status = "ok" /\ y.json)}}
    ELSE PostResponses

\* The message setSuccess receives on an ok response.
SuccessMessage(url, resp) ==
  IF url = UpdateUrl("twitter") THEN
    CASE resp.persona_status = "success" ->
           "Twitter account connected and persona generated successfully!"
      [] resp.persona_status = "no_tweets_found" ->
           "Twitter account connected! No tweets found for persona generation."
      [] resp.persona_status = "generation_failed" ->
           "Twitter account connected! Persona generation failed, but credentials are saved."
      [] OTHER -> "Twitter credentials updated successfull!"
  ELSE IF url = UpdateUrl("accounts") THEN "Target accounts updated successfully!"
  ELSE "Keywords updated successfully!"

UpdateFallback(url) ==
  IF url = UpdateUrl("twitter") THEN "Failed to update Twitter credentials"
  ELSE IF url = UpdateUrl("accounts") THEN "Failed to update target accounts"
  ELSE "Failed to update keywords"

\* Whether the handler takes its ok branch to the end: handleTwitterSubmit
\* parses the body first, the other two do not read it.
UpdateSucceeds(url, resp) ==
  resp.status = "ok" /\ (url = UpdateUrl("twitter") => resp.json)

\* A submit handler of Settings after its await: setSuccess and setTimeout on
\* ok, else setError; finally setLoading(false).
UpdateResponse(i, resp) ==
  /\ i \in DOMAIN inflight
  /\ inflight[i].url \in UpdateUrls
  /\ resp \in UpdateResponses(inflight[i].url)
  /\ LET r == inflight[i]
         good == UpdateSucceeds(r.url, resp)
     IN /\ r.live /\ good => timers < MaxTimers
        /\ settings' =
             IF ~r.live THEN settings
             ELSE IF good
               THEN [settings EXCEPT !.success = SuccessMessage(r.url, resp),
                                     !.loading = FALSE]
             ELSE [settings EXCEPT !.error = PostError(resp, UpdateFallback(r.url)),
                                   !.loading = FALSE]
        /\ timers' = IF r.live /\ good THEN timers + 1 ELSE timers
        /\ inflight' = RemoveAt(inflight, i)
        /\ last' = Settled(r)
  /\ UNCHANGED <<env, form, path, layout, pages, signIn, listeners, imageFetch>>

\* A faulty timer callback: the message is cleared, the modal stays open.
timerCallback_keepModal(st) == [st EXCEPT !.success = ""]

\* The setTimeout callback: setActiveModal(null); setSuccess('')
timerCallback(st) == [st EXCEPT !.activeModal = Null, !.success = ""]

\* A pending timer of the mounted Settings expires.
TimerFires ==
  /\ timers > 0
  /\ settings' = timerCallback(settings)
  /\ timers' = timers - 1
  /\ last' = [op |-> "timer"]
  /\ UNCHANGED <<env, form, path, layout, pages, signIn, listeners, inflight, imageFetch>>

\* ------------------------------------------------------------- Settings' form
\* Settings is loaded; the server's data or the user's text is any of the
\* bounded ones.
FormInit ==
  /\ Load(SettingsRoute)
  /\ env = NoEnv
  /\ form \in {FormState(d, <<>>) : d \in SettingsData}
              \cup {FormState(NoData, t) : t \in Texts}

\* fetchUserSettings after its await: on ok both inputs are set from the
\* data; finally the form is rendered.
FormFetched(ok) ==
  /\ ~form.fetched
  /\ form' = IF ok
               THEN [form EXCEPT !.targetAccounts = display(form.data.target_accounts),
                                 !.keywords = display(form.data.search_keywords),
                                 !.fetched = TRUE,
                                 !.fromServer = Fields]
             ELSE [form EXCEPT !.fetched = TRUE]
  /\ UNCHANGED <<env, path, layout, pages, signIn, settings, listeners, inflight, timers,
                 imageFetch, last>>

\* onChange of an input: setTargetAccounts(e.target.value) / setKeywords(...)
FormType(f) ==
  /\ form.fetched
  /\ form' = [form EXCEPT ![f] = form.typed, !.fromServer = @ \ {f}]
  /\ UNCHANGED <<env, path, layout, pages, signIn, settings, listeners, inflight, timers,
                 imageFetch, last>>

\* The list handleTargetAccountsSubmit / handleKeywordsSubmit puts in the body.
FormSubmit(f) ==
  /\ form.fetched
  /\ form' = [form EXCEPT !.body =
                [field |-> f,
                 list |-> IF f = "targetAccounts" THEN accountsArray(form.targetAccounts)
                          ELSE keywordsArray(form.keywords)]]
  /\ UNCHANGED <<env, path, layout, pages, signIn, settings, listeners, inflight, timers,
                 imageFetch, last>>

FormNext ==
  \/ \E ok \in BOOLEAN : FormFetched(ok)
  \/ \E f \in Fields : FormType(f)
  \/ \E f \in Fields : FormSubmit(f)

\* ------------------------------------------------------------- specification
Indices == 1..(MaxInFlight + 1)
Rows == 1..MaxTweets

\* What the user and the servers of the handlers' requests can do.
Handlers ==
  \/ \E to \in Routes \cup {DashboardIndex} : Navigate(to)
  \/ \E i \in 1..2 : ClickButton(i)
  \/ \E c \in ReviewPages, k \in Rows : Confirm(c, k)
  \/ \E c \in ReviewPages, k \in Rows : Delete(c, k)
  \/ \E c \in ReviewPages, k \in Rows : StartEdit(c, k)
  \/ \E c \in ReviewPages, k \in Rows, text \in Typed : TypeEdit(c, k, text)
  \/ \E c \in ReviewPages, k \in Rows : CancelEdit(c, k)
  \/ \E c \in ReviewPages, k \in Rows : SubmitEdit(c, k)
  \/ \E i \in Indices, resp \in ListResponses : ViewResponse(i, resp)
  \/ \E i \in Indices, resp \in PostResponses : FetchResponse(i, resp)
  \/ \E i \in Indices, resp \in PostResponses : ActionResponse(i, resp)
  \/ SignInSubmit
  \/ \E i \in Indices, resp \in PostResponses : SignInResponse(i, resp)
  \/ \E i \in Indices, resp \in OkBodies \cup Failures : SettingsResponse(i, resp)
  \/ \E g \in Groups : OpenModal(g)
  \/ CloseModal
  \/ \E g \in Groups : SettingsSubmit(g)
  \/ \E i \in Indices, g \in Groups :
       \E resp \in UpdateResponses(UpdateUrl(g)) : UpdateResponse(i, resp)
  \/ TimerFires

Next ==
  \/ Handlers
  \/ \E url \in ProfileResponses : ProfileResponse(url)

Spec == Init /\ [][Next]_vars

\* The runs in which the avatar fetch of a review page is still pending.
\* ProfileResponse reads and writes only imageFetch and userProfileImage, and no
\* other action reads either, so every run of Spec is one of these runs with
\* ProfileResponse steps put in.
SpecHandlers == Init /\ [][Handlers]_vars

\* The handlers with the browser's guarantee that a timer that was set and not
\* dropped expires.
SpecTimers == Init /\ [][Handlers]_vars /\ WF_vars(TimerFires)

\* The application under any setting of the two environment variables: the
\* steps that issue and settle the requests of the four components.
ConfigInit ==
  /\ \E p \in Routes \cup {DashboardIndex} : Load(p)
  /\ form = FormState(NoData, <<>>)
  /\ env \in Envs
ConfigNext ==
  \/ \E to \in Routes \cup {DashboardIndex} : Navigate(to)
  \/ \E i \in 1..2 : ClickButton(i)
  \/ \E i \in Indices, resp \in ListResponses : ViewResponse(i, resp)
  \/ \E i \in Indices, resp \in PostResponses : FetchResponse(i, resp)
  \/ SignInSubmit
  \/ \E i \in Indices, resp \in PostResponses : SignInResponse(i, resp)
  \/ \E i \in Indices, resp \in OkBodies \cup Failures : SettingsResponse(i, resp)
SpecConfig == ConfigInit /\ [][ConfigNext]_vars

\* Settings' inputs alone: what is displayed and what is submitted.
SpecForm == FormInit /\ [][FormNext]_vars

\* ------------------------------------------------------------- properties
\* The tweet-review page of the current route (a name outside ReviewPages when
\* there is none).
Page == PageAt(path)

\* The component whose handler awaits a request to url.
OwnerOf(url) ==
  CASE url = SignInUrl -> "SignIn"
    [] url \in UpdateUrls \cup {SettingsUrl} -> "Settings"
    [] url \in {ListUrl("TargetUserTweets"), ActionUrl("TargetUserTweets"), ScrapeUrl} ->
         "TargetUserTweets"
    [] OTHER -> "RepurposedTweets"

\* C1: when an item-action POST for tweet id X gets an ok response, the list
\* displayed afterwards is the list displayed immediately before that response
\* without the items whose tweet_id is X, whatever completed between the click
\* and the response.
C1_RemovesExactlyMatching ==
  [][ \A i \in Indices, resp \in OkBodies :
        ActionResponse(i, resp) /\ inflight[i].live /\ resp.json =>
          pages'[Page].tweets = FilterOut(pages[Page].tweets, inflight[i].body.tweet_id) ]_vars

\* C2: an item-action POST in flight carries edited_text only if its action is
\* 'edit'.
C2_EditedTextOnlyOnEdit ==
  \A i \in DOMAIN inflight :
    inflight[i].live /\ inflight[i].url \in ActionUrls =>
      ("edited_text" \in DOMAIN inflight[i].body => inflight[i].body.action = "edit")

\* A confirm was sent without edited_text while the edit buffer of the page
\* holds text.
C2_Witness ==
  /\ Page \in ReviewPages
  /\ Truthy(pages[Page].editText)
  /\ \E i \in DOMAIN inflight :
       /\ inflight[i].live /\ inflight[i].url \in ActionUrls
       /\ inflight[i].body.action = "confirm"
       /\ "edited_text" \notin DOMAIN inflight[i].body

\* C3: the request submitEdit issues has action 'edit' and an edited_text equal
\* to the edit buffer, also when the buffer is the empty string.
C3_SubmitEditCarriesBuffer ==
  [][ last'.op = "submitEdit" =>
        LET r == inflight'[Len(inflight')]
        IN /\ r.body.action = "edit"
           /\ "edited_text" \in DOMAIN r.body
           /\ r.body.edited_text = pages[Page].editText ]_vars

\* The ids of the listed items that are shown in edit mode.
EditedIds(pg) ==
  {pg.tweets[k].tweet_id : k \in {j \in DOMAIN pg.tweets : pg.tweets[j].tweet_id = pg.editingTweet}}

\* C4: at most one item id is in edit mode, and startEdit on an item B while
\* another item is being edited makes B the edited item and the edit buffer
\* B's draft.
C4_EditingExclusive ==
  /\ [](\A c \in ReviewPages : Cardinality(EditedIds(pages[c])) <= 1)
  /\ [][ last'.op = "startEdit" =>
           \E k \in DOMAIN pages[Page].tweets :
             LET B == pages[Page].tweets[k]
             IN /\ B.tweet_id # pages[Page].editingTweet
                /\ pages'[Page].editingTweet = B.tweet_id
                /\ EditedIds(pages'[Page]) = {B.tweet_id}
                /\ pages'[Page].editText = B.draft ]_vars

\* startEdit has just replaced the edit session of another item, whose buffer
\* differed from the new item's draft.
C4_Witness ==
  /\ Page \in ReviewPages
  /\ last.op = "startEdit"
  /\ last.wasEditing # NoTweet
  /\ pages[Page].editingTweet # last.wasEditing
  /\ pages[Page].editText # DraftOf(last.wasEditing)

\* C5: after every change of the route path within the shell, the shell's
\* fetch-complete flag is false and the fetch button carries its initial label.
C5_NavigationResetsFetchComplete ==
  [][ (path' # path \/ last'.op = "navigate") /\ LayoutMounted' =>
        /\ ~layout'.fetchComplete
        /\ \A i \in DOMAIN layout'.actionButtons :
             layout'.actionButtons[i].label # FetchedLabel ]_vars

\* The route was left while the flag was true, and the flag is false now.
C5_Witness ==
  /\ last.op = "navigate" /\ last.wasComplete /\ last.from = TargetRoute
  /\ LayoutMounted
  /\ ~layout.fetchComplete

\* The ids of a button list, in order.
ButtonIds(buttons) == [i \in DOMAIN buttons |-> buttons[i].id]

\* C6: the shell's button list is [view-tweets, fetch-tweets],
\* [view-target-tweets, fetch-target-tweets] or [view-repurposed] on the three
\* routes that have contextual buttons and empty on every other route.
C6_ButtonsFollowRoute ==
  LayoutMounted =>
    ButtonIds(layout.actionButtons) =
      CASE path = "/dashboard/top-tweets" -> <<"view-tweets", "fetch-tweets">>
        [] path = "/dashboard/target-user-tweets" ->
             <<"view-target-tweets", "fetch-target-tweets">>
        [] path = "/dashboard/repurposed-tweets" -> <<"view-repurposed">>
        [] OTHER -> <<>>

\* A route without contextual buttons was entered from one that has them.
C6_Witness ==
  /\ last.op = "navigate"
  /\ last.from \in {TopTweetsRoute, TargetRoute, RepurposedRoute}
  /\ path \in {SettingsRoute, AnalyticsRoute}
  /\ layout.actionButtons = <<>>

\* C7: a non-ok answer to POST /sign-in whose body has a non-empty detail
\* leaves exactly that detail as the error and does not navigate; SignIn is
\* left only by an ok answer to POST /sign-in.
C7_SignInErrorAndNavigation ==
  [][ /\ \A i \in Indices, resp \in NonOk :
           SignInResponse(i, resp) /\ resp.json /\ Truthy(resp.detail) =>
             signIn'.error = resp.detail /\ path' = SignInRoute
      /\ path = SignInRoute /\ path' # SignInRoute =>
           \E i \in Indices, resp \in OkBodies : SignInResponse(i, resp) ]_vars

\* The 400 {detail: "Invalid credentials"} example.
C7_Witness ==
  /\ last.op = "response" /\ last.url = SignInUrl
  /\ signIn.error = "Invalid credentials"
  /\ path = SignInRoute

\* C8: once GET /fetch_pending_replies returned ok with an empty list and no
\* other request is in flight, TargetUserTweets shows the list, is not loading,
\* has an empty list and no error.
C8_EmptyListState ==
  [][ \A i \in Indices, resp \in ListResponses :
        ( /\ ViewResponse(i, resp)
          /\ inflight[i].live /\ inflight[i].comp = "TargetUserTweets"
          /\ resp.status = "ok" /\ resp.json /\ resp.list = <<>>
          /\ inflight' = <<>> /\ ~imageFetch' )
        => LET pg == pages'["TargetUserTweets"]
           IN pg.showTweets /\ ~pg.loading /\ pg.tweets = <<>> /\ pg.error = "" ]_vars

\* The requests whose handlers use the loading flag of their component.
LoadingUrls == ListUrls \cup ActionUrls \cup UpdateUrls \cup {ScrapeUrl, SignInUrl}

\* The loading flag of a component that has one.
LoadingOf(c) ==
  IF c \in ReviewPages THEN pages[c].loading
  ELSE IF c = "SignIn" THEN signIn.loading
  ELSE settings.loading

\* C9: a handler that uses the loading flag leaves it true at entry and false
\* when its request has settled, however it settled; so loading is false
\* whenever no such request of the component is in flight.
C9_LoadingCleared ==
  /\ \A c \in ReviewPages \cup {"SignIn", "Settings"} :
       (\A i \in LiveRequests(c) : inflight[i].url \notin LoadingUrls) => ~LoadingOf(c)
  /\ (last.op \in {"confirm", "cancel", "submitEdit", "signInSubmit", "settingsSubmit"}
        => LoadingOf(Page))
  /\ (last.op = "click" /\ last.handlers > 0 => LoadingOf(Page))
  /\ (last.op = "navigate" /\ Page \in ReviewPages => LoadingOf(Page))
  /\ (last.op = "response" /\ last.live /\ last.url \in LoadingUrls
        => ~LoadingOf(OwnerOf(last.url)))

\* A request of the mounted review page ended in its catch block and loading
\* is false again.
C9_Witness ==
  /\ Page \in ReviewPages
  /\ last.op = "response" /\ last.live
  /\ last.url \in LoadingUrls
  /\ inflight = <<>>
  /\ ~pages[Page].loading
  /\ pages[Page].error = NetworkError

\* The request an intent event stands for, as its handler issues it.
IntentRequest(ev) ==
  CASE ev = "viewTargetTweets" -> Request("TargetUserTweets", "GET", "/fetch_pending_replies")
    [] ev = "fetchTargetTweets" -> Request("TargetUserTweets", "POST", "/scrape_user_tweets")
    [] OTHER -> Request("RepurposedTweets", "GET", "/fetch_pending_repurposed_tweets")

\* C10: a click on a contextual button dispatches the one event of that button,
\* the page of the current route answers it with the one request the intent
\* stands for, and an intent event has a listener only while the page of its
\* route is mounted.
C10_IntentProtocol ==
  /\ [](\A ev \in {"viewTargetTweets", "fetchTargetTweets", "viewRepurposed"} :
          listeners[ev] > 0 => IntentRequest(ev).comp = Page)
  /\ [][ last'.op = "click" =>
           /\ Len(last'.events) = 1
           /\ last'.events[1] =
                CASE last'.id = "view-tweets" -> "viewTweets"
                  [] last'.id = "fetch-tweets" -> "fetchTweets"
                  [] last'.id = "view-target-tweets" -> "viewTargetTweets"
                  [] last'.id = "fetch-target-tweets" -> "fetchTargetTweets"
                  [] last'.id = "view-repurposed" -> "viewRepurposed"
           /\ last'.events[1] \in {"viewTargetTweets", "fetchTargetTweets", "viewRepurposed"} =>
                /\ IntentRequest(last'.events[1]).comp = Page
                /\ inflight' = Append(inflight, IntentRequest(last'.events[1])) ]_vars

\* The shell's fetch button was clicked on the target-user route and the scrape
\* POST is in flight.
C10_Witness ==
  /\ last.op = "click" /\ last.id = "fetch-target-tweets"
  /\ path = TargetRoute
  /\ inflight # <<>>
  /\ inflight[Len(inflight)] = Request("TargetUserTweets", "POST", ScrapeUrl)

\* C11: whenever the shell and a review page are mounted, the shell's loading
\* flag equals the page's loading flag (events are delivered synchronously, so
\* none is ever pending between two steps).
C11_ShellFollowsPage ==
  LayoutMounted /\ Page \in ReviewPages => layout.loading = pages[Page].loading

C13_DetailOrFallback ==
  [][ /\ \A i \in Indices, resp \in ListResponses :
           ViewResponse(i, resp) /\ inflight[i].live /\ resp.status = "nonok" /\ resp.json =>
             pages'[Page].error = DetailOr(resp, ListFallback(Page))
      /\ \A i \in Indices, resp \in NonOk :
           FetchResponse(i, resp) /\ inflight[i].live /\ resp.json =>
             pages'[Page].error = DetailOr(resp, ScrapeFallback)
      /\ \A i \in Indices, resp \in NonOk :
           ActionResponse(i, resp) /\ inflight[i].live /\ resp.json =>
             pages'[Page].error =
               DetailOr(resp, ActionFallback(Page, inflight[i].body.action))
      /\ \A i \in Indices, resp \in NonOk :
           SignInResponse(i, resp) /\ resp.json =>
             signIn'.error = DetailOr(resp, "Authentication failed")
      /\ \A i \in Indices, resp \in NonOk :
           UpdateResponse(i, resp) /\ resp.json =>
             settings'.error = DetailOr(resp, UpdateFallback(inflight[i].url)) ]_vars

\* C14: a request of a mounted component that fails in transport leaves the
\* fixed network-error string as that component's error; this includes the
\* GETs issued on mount.
C14_TransportFailureSurfaced ==
  [][ /\ \A i \in Indices, resp \in ListResponses :
           ViewResponse(i, resp) /\ inflight[i].live /\ resp.status = "fail" =>
             pages'[Page].error = NetworkError
      /\ \A i \in Indices, resp \in Failures :
           (FetchResponse(i, resp) \/ ActionResponse(i, resp)) /\ inflight[i].live =>
             pages'[Page].error = NetworkError
      /\ \A i \in Indices, resp \in Failures :
           SignInResponse(i, resp) => signIn'.error = NetworkError
      /\ \A i \in Indices, resp \in Failures :
           UpdateResponse(i, resp) => settings'.error = NetworkError
      /\ \A i \in Indices, resp \in Failures :
           SettingsResponse(i, resp) => settings'.error = NetworkError ]_vars

\* C15: while the modal of one group is open, the answer to a submission of
\* another group changes none of the loading flag, the error and the success
\* message that modal shows.
C15_IndependentLifecycles ==
  [][ \A i \in Indices, g \in Groups :
        \A resp \in UpdateResponses(UpdateUrl(g)) :
          ( /\ i \in DOMAIN inflight
            /\ inflight[i].url = UpdateUrl(g)
            /\ settings.activeModal \notin {Null, g}
            /\ UpdateResponse(i, resp) )
          => /\ settings'.loading = settings.loading
             /\ settings'.error = settings.error
             /\ settings'.success = settings.success ]_vars

\* C18: at most one item-action request of a page's mounted instance is in
\* flight.
C18_OneItemActionInFlight ==
  \A c \in ReviewPages :
    Cardinality({i \in LiveRequests(c) : inflight[i].url \in ActionUrls}) <= 1

\* C19: while a review page stays mounted its list changes only by an ok list
\* GET, to the list of the response, or by an ok item-action response, to the
\* previous list without one item's id; a non-ok or failed answer to a list
\* fetch, a scrape or an item action leaves list, editing id and buffer alone.
C19_ListChangesOnlyTwoWays ==
  [][ /\ ( /\ Page \in ReviewPages /\ path' = path /\ last'.op # "navigate"
           /\ pages'[Page].tweets # pages[Page].tweets )
         => \/ \E i \in Indices, resp \in ListResponses :
                 /\ ViewResponse(i, resp) /\ resp.status = "ok"
                 /\ pages'[Page].tweets = resp.list
            \/ \E i \in Indices, resp \in OkBodies :
                 /\ ActionResponse(i, resp)
                 /\ \E k \in DOMAIN pages[Page].tweets :
                      pages'[Page].tweets =
                        FilterOut(pages[Page].tweets, pages[Page].tweets[k].tweet_id)
      /\ \A i \in Indices, resp \in ListResponses \cup NonOk \cup Failures :
           ( /\ resp.status # "ok" /\ Page \in ReviewPages
             /\ ViewResponse(i, resp) \/ FetchResponse(i, resp) \/ ActionResponse(i, resp) )
           => /\ pages'[Page].tweets = pages[Page].tweets
              /\ pages'[Page].editingTweet = pages[Page].editingTweet
              /\ pages'[Page].editText = pages[Page].editText ]_vars

\* C20 (as the claim states it): the Cancel button of an item in edit mode can
\* be used also while loading is true.
C20_CancelAvailableWhileLoading ==
  \A c \in ReviewPages, k \in Rows :
    ( /\ Mounted(c) /\ pages[c].showTweets
      /\ k \in DOMAIN pages[c].tweets
      /\ InEditMode(c, k)
      /\ (c = "TargetUserTweets" => Truthy(pages[c].tweets[k].draft)) )
    => ENABLED CancelEdit(c, k)

\* C20: the Cancel button of an item in edit mode is rendered only while
\* loading is false; cancelEdit sets the editing id to none and the buffer to
\* empty, issues no request and leaves list, loading and error unchanged.
C20_CancelEditFrame ==
  [][ \A c \in ReviewPages, k \in Rows :
        CancelEdit(c, k) =>
          /\ ~pages[c].loading
          /\ pages'[c].editingTweet = NoTweet
          /\ pages'[c].editText = ""
          /\ inflight' = inflight
          /\ pages'[c].tweets = pages[c].tweets
          /\ pages'[c].loading = pages[c].loading
          /\ pages'[c].error = pages[c].error ]_vars

\* An edit with text in its buffer was cancelled on a page that shows an error.
C20_Witness ==
  /\ Page \in ReviewPages
  /\ last.op = "cancelEdit"
  /\ pages[Page].editingTweet = NoTweet /\ pages[Page].editText = ""
  /\ pages[Page].tweets # <<>>
  /\ pages[Page].error # ""

\* C16 (as the claim states it): every ok answer to a submit of the mounted
\* Settings leaves a non-empty success message.
C16_OkAlwaysSucceeds ==
  [][ \A i \in Indices, g \in Groups :
        \A resp \in UpdateResponses(UpdateUrl(g)) :
          UpdateResponse(i, resp) /\ inflight[i].live /\ resp.status = "ok" =>
            settings'.success # "" ]_vars

\* C16: an ok answer to a submit of the mounted Settings (for the credentials
\* group: one whose body parses) leaves a non-empty success message and starts
\* a timer; every other answer starts no timer, leaves the modal as it is and
\* the success message empty; and whenever a timer is pending, eventually the
\* success message is empty and no modal is open.
C16_SuccessSelfClears ==
  /\ [][ \A i \in Indices, g \in Groups :
           \A resp \in UpdateResponses(UpdateUrl(g)) :
             UpdateResponse(i, resp) /\ inflight[i].live =>
               IF /\ resp.status = "ok"
                  /\ inflight[i].url = UpdateUrl("twitter") => resp.json
                 THEN /\ settings'.success # ""
                      /\ timers' = timers + 1
                 ELSE /\ timers' = timers
                      /\ settings'.activeModal = settings.activeModal
                      /\ settings'.success = "" ]_vars
  /\ (timers > 0) ~> (settings.success = "" /\ settings.activeModal = Null)

\* The timer of a successful submit has fired on the mounted Settings.
C16_Witness ==
  /\ path = SettingsRoute
  /\ last.op = "timer"
  /\ settings.success = "" /\ settings.activeModal = Null
  /\ ~settings.loading

\* The positions that bound the pieces of a text: before it, after it, and
\* its commas.
Cuts(t) == {0, Len(t) + 1} \cup {k \in DOMAIN t : t[k] = ","}
\* The positions of the non-blank characters of the piece that starts after
\* cut a.
Ink(t, a) ==
  LET b == CHOOSE c \in Cuts(t) : c > a /\ \A d \in Cuts(t) : d > a => c <= d
  IN {k \in (a + 1)..(b - 1) : t[k] # " "}
Kept(t) == {a \in Cuts(t) \ {Len(t) + 1} : Ink(t, a) # {}}
\* L lists, in the order of the text, the non-blank pieces of t between their
\* first and last non-blank character.
IsSplitOf(L, t) ==
  /\ Len(L) = Cardinality(Kept(t))
  /\ \A a \in Kept(t) :
       LET n == Cardinality({x \in Kept(t) : x <= a})
           lo == CHOOSE k \in Ink(t, a) : \A j \in Ink(t, a) : k <= j
           hi == CHOOSE k \in Ink(t, a) : \A j \in Ink(t, a) : k >= j
       IN L[n] = SubSeq(t, lo, hi)

\* C17: the list submitted for an input is the comma-split of its text, each
\* piece trimmed, empty pieces dropped, in order: no element is empty or has
\* a blank at either end; and an input that still holds what was displayed
\* for a list of the server submits that list.
C17_SplitTrimFilter ==
  [][ \A f \in Fields :
        FormSubmit(f) =>
          LET L == form'.body.list
          IN /\ IsSplitOf(L, form[f])
             /\ \A n \in DOMAIN L :
                  /\ L[n] # <<>>
                  /\ Head(L[n]) # " " /\ L[n][Len(L[n])] # " "
             /\ f \in form.fromServer /\ DataOf(form.data, f).has =>
                  L = DataOf(form.data, f).list ]_vars

\* Round trip: the list of two names the server sent for the keywords, one of
\* them with a blank inside, was displayed and submitted unchanged.
C17_Witness ==
  /\ form.body.field = "keywords"
  /\ "keywords" \in form.fromServer
  /\ form.data.search_keywords.has
  /\ Len(form.body.list) = 2
  /\ form.body.list = form.data.search_keywords.list
  /\ \E n \in 1..2 : \E k \in DOMAIN form.body.list[n] : form.body.list[n][k] = " "

\* C21: a click on a shell button whose event has no registered handler
\* dispatches the event and changes nothing else: no request is issued, and
\* the shell's buttons, loading flag and fetch-complete flag stay as they are.
C21_ClickWithoutListener ==
  [][ \A i \in 1..2 :
        ( /\ ClickButton(i)
          /\ listeners[layout.actionButtons[i].event] = 0 )
        => /\ last'.events = <<layout.actionButtons[i].event>>
           /\ inflight' = inflight
           /\ layout' = layout
           /\ pages' = pages ]_vars

\* A button of /dashboard/top-tweets was clicked while nothing listened.
C21_Witness ==
  /\ path = TopTweetsRoute
  /\ last.op = "click" /\ last.handlers = 0
  /\ last.id \in {"view-tweets", "fetch-tweets"}
  /\ inflight = <<>> /\ ~layout.loading

\* C22: window holds exactly one loadingStateChange and one fetchCompleteChange
\* listener while Layout is mounted and none otherwise; each review page holds
\* exactly one listener per intent event it handles while it is mounted and
\* none otherwise; and a click on a shell button starts at most one request.
C22_ListenerLifetime ==
  /\ [] ( /\ \A ev \in {"loadingStateChange", "fetchCompleteChange"} :
               listeners[ev] = IF LayoutMounted THEN 1 ELSE 0
          /\ \A ev \in {"viewTargetTweets", "fetchTargetTweets", "viewRepurposed"} :
               listeners[ev] = IF Mounted(ListenerOf(ev)) THEN 1 ELSE 0 )
  /\ [][ \A i \in 1..2 : ClickButton(i) => Len(inflight') <= Len(inflight) + 1 ]_vars

\* RepurposedTweets was unmounted and TargetUserTweets mounted, and a click on
\* a shell button has since run one handler.
C22_Witness ==
  /\ path = TargetRoute
  /\ last.op = "click" /\ last.handlers = 1
  /\ listeners["viewRepurposed"] = 0
  /\ listeners["viewTargetTweets"] = 1 /\ listeners["fetchTargetTweets"] = 1
  /\ listeners["loadingStateChange"] = 1 /\ listeners["fetchCompleteChange"] = 1
  /\ \E i \in DOMAIN inflight : ~inflight[i].live /\ inflight[i].comp = "RepurposedTweets"

\* C23: under every setting of the environment, every request in flight is
\* addressed to the base URL config/api.js exports.
C23_OneBaseUrl ==
  \A i \in DOMAIN inflight : BaseUrl(inflight[i].comp, env) = API_BASE_URL(env)

\* C24: the shell's fetch-complete flag is true only if the page of the
\* current route is TargetUserTweets and a scrape of this mounted instance has
\* succeeded (which is what the page's own flag records).
C24_FetchCompleteOfCurrentRoute ==
  layout.fetchComplete =>
    /\ Page = "TargetUserTweets"
    /\ pages[Page].fetchComplete

\* C25: a mounted review page is loading whenever a list fetch, a scrape or an
\* item action of it is in flight.
C25_LoadingWhileInFlight ==
  \A c \in ReviewPages :
    (\E i \in LiveRequests(c) :
        inflight[i].url \in ListUrls \cup ActionUrls \cup {ScrapeUrl})
    => pages[c].loading

\* C26: on the mounted TargetUserTweets a scrape leaves the page's
\* fetch-complete flag false at entry; its ok answer leaves the flag true and
\* issues exactly one GET /fetch_pending_replies; any other answer leaves the
\* flag false, issues nothing and does not change the list.
C26_ScrapeProtocol ==
  [][ /\ \A i \in 1..2 :
           ( /\ ClickButton(i)
             /\ layout.actionButtons[i].event = "fetchTargetTweets"
             /\ Mounted("TargetUserTweets") )
           => ~pages'["TargetUserTweets"].fetchComplete
      /\ \A i \in Indices, resp \in PostResponses :
           FetchResponse(i, resp) /\ inflight[i].live =>
             IF resp.status = "ok" /\ resp.json
               THEN /\ pages'["TargetUserTweets"].fetchComplete
                    /\ inflight' = Append(RemoveAt(inflight, i),
                                          Request("TargetUserTweets", "GET",
                                                  "/fetch_pending_replies"))
               ELSE /\ ~pages'["TargetUserTweets"].fetchComplete
                    /\ inflight' = RemoveAt(inflight, i)
                    /\ pages'["TargetUserTweets"].tweets = pages["TargetUserTweets"].tweets
    ]_vars

\* C27: a timer that was already pending when the user opened a modal (so it
\* was started by an earlier submission) does not close that modal.
C27_TimerClosesOwnModal ==
  [][ TimerFires /\ last.op = "openModal" =>
        settings'.activeModal = settings.activeModal ]_vars

\* C28 (as the claim states it): every ok answer to an item action of the
\* mounted page leaves the editing id none and the buffer empty.
C28_OkClearsEdit ==
  [][ \A i \in Indices, resp \in OkBodies :
        ActionResponse(i, resp) /\ inflight[i].live =>
          /\ pages'[Page].editingTweet = NoTweet
          /\ pages'[Page].editText = "" ]_vars

\* C28: an ok answer, with a body that parses, to an item action of the
\* mounted page leaves the editing id none and the buffer empty, whichever
\* item was in edit mode; an ok answer whose body does not parse ends in the
\* handler's catch block and leaves both as they were.
C28_OkClearsAnyEdit ==
  [][ \A i \in Indices, resp \in OkBodies :
        ActionResponse(i, resp) /\ inflight[i].live =>
          IF resp.json
            THEN /\ pages'[Page].editingTweet = NoTweet
                 /\ pages'[Page].editText = ""
            ELSE /\ pages'[Page].editingTweet = pages[Page].editingTweet
                 /\ pages'[Page].editText = pages[Page].editText ]_vars

\* An item action has been answered ok while another item, still listed, was
\* in edit mode: its edit session is gone.
C28_Witness ==
  /\ Page \in ReviewPages
  /\ last.op = "response" /\ last.live /\ last.url \in ActionUrls
  /\ last.wasEditing # NoTweet
  /\ \E k \in DOMAIN pages[Page].tweets : pages[Page].tweets[k].tweet_id = last.wasEditing
  /\ pages[Page].editingTweet = NoTweet /\ pages[Page].editText = ""
  /\ pages[Page].error = ""

\* C29: the editing id of a review page is none or the tweet_id of an item of
\* its current list.
C29_EditingIdListed ==
  \A c \in ReviewPages :
    pages[c].editingTweet # NoTweet =>
      \E k \in DOMAIN pages[c].tweets : pages[c].tweets[k].tweet_id = pages[c].editingTweet

\* C30: once the form is rendered, a row that shows a number of configured
\* entries shows the length of the list a submission of the input's text
\* would send.
C30_RowCountIsListLength ==
  \A f \in Fields :
    form.fetched /\ showsCount(form[f]) =>
      configuredCount(form[f]) =
        Len(IF f = "targetAccounts" THEN accountsArray(form[f]) ELSE keywordsArray(form[f]))

====
